---- MODULE Spec2Model ----
(***************************************************************************)
(* Model of the SCDH tree view (src/src/components/ui/imports/button.tsx,  *)
(* lines 97-702: TreeView, TreeItem, TreeNode, TreeLeaf) as a state        *)
(* machine: the props a TreeView receives, the React state it and its      *)
(* TreeNode / TreeLeaf children keep, and one action per DOM event the     *)
(* components bind a handler to.                                           *)
(*                                                                         *)
(* Tree data is kept flat: the entries of the data are numbered 1..n in    *)
(* depth-first pre-order, parent[i] is the entry whose children array      *)
(* holds entry i (0 for a top-level entry), children[i] tells whether      *)
(* entry i has a children field at all (an empty array counts), id[i] is   *)
(* its id string.  An entry number stands for the object reference of the  *)
(* TreeDataItem; two entries may carry the same id string.  Ids of data    *)
(* entries are non-empty strings.                                          *)
(***************************************************************************)
EXTENDS Integers, Sequences, FiniteSets, TLC

VARIABLES
    data,                   \* props.data (TreeDataItem[] | TreeDataItem)
    initialSelectedItemId,  \* props.initialSelectedItemId
    expandAll,              \* props.expandAll
    onSelectChange,         \* props.onSelectChange is supplied
    onDocumentDrag,         \* props.onDocumentDrag is supplied
    mounted,                \* the TreeView has rendered once
    expandedItemIds,        \* useMemo result, TreeView
    value,                  \* TreeNode useState: the branches whose accordion is open
    selectedItemId,         \* TreeView useState
    draggedItem,            \* TreeView useState
    isDragOver,             \* TreeNode / TreeLeaf useState, the entries whose flag is true
    gesture,                \* the browser's drag gesture: "none", or where it started:
                            \* "own" (this TreeView), "other", "foreign" (outside)
    event,                  \* the DOM event handled last and what its handler did to it
    calls,                  \* the callbacks the last handler invoked, in order
    iconProps,              \* the props of one rendering of TreeIcon
    iconRendered,           \* what that rendering of TreeIcon returned
    flatItems,              \* the argument of one call of createTreeData
    treeData,               \* what that call of createTreeData returned
    other                   \* the state of a second TreeView rendered with the same props

vars == <<data, initialSelectedItemId, expandAll, onSelectChange, onDocumentDrag,
          mounted, expandedItemIds, value, selectedItemId, draggedItem,
          isDragOver, gesture, event, calls,
          iconProps, iconRendered, flatItems, treeData, other>>

\* the variables of TreeIcon and createTreeData, which no TreeView state touches
pure == <<iconProps, iconRendered, flatItems, treeData>>

props == <<data, initialSelectedItemId, expandAll, onSelectChange, onDocumentDrag>>

(***************************************************************************)
(* Bounds of the model.                                                    *)
(***************************************************************************)
MaxNodes == 4            \* entries of a tree in the expansion-path specification
MaxSpecial == 1          \* entries with non-default attributes in the interaction specification
MaxRecords == 3          \* flat records in an argument of createTreeData

(***************************************************************************)
(* Values.                                                                 *)
(***************************************************************************)
Undefined == "undefined"          \* a missing string prop / state
IdNames == <<"a", "b", "c", "d", "e", "f", "g", "h">>
AbsentId == "zz"                  \* an id no entry carries

Nodes(d) == 1..d.n

RECURSIVE SeqOfSet(_)
SeqOfSet(S) ==
    IF S = {} THEN <<>>
    ELSE LET m == CHOOSE x \in S : \A y \in S : x <= y
         IN <<m>> \o SeqOfSet(S \ {m})

\* item.children of entry i, in order (entries are numbered in pre-order)
Children(d, i) == SeqOfSet({j \in Nodes(d) : d.parent[j] = i})

RECURSIVE Ancestors(_, _)
Ancestors(d, i) ==
    IF d.parent[i] = 0 THEN {} ELSE {d.parent[i]} \cup Ancestors(d, d.parent[i])

\* number of ancestors: top-level entries are at depth 0
Depth(d, i) == Cardinality(Ancestors(d, i))

\* the ids on the way from the top-level ancestor of i down to i
PathTo(d, i) == [k \in 1..(Depth(d, i) + 1) |->
                    d.id[CHOOSE j \in Ancestors(d, i) \cup {i} : Depth(d, j) = k - 1]]

UniqueIds(d) == \A i, j \in Nodes(d) : d.id[i] = d.id[j] => i = j

Includes(seq, x) == \E k \in 1..Len(seq) : seq[k] = x

Front(seq) == SubSeq(seq, 1, Len(seq) - 1)

(***************************************************************************)
(* TreeView: the expansion path (useMemo, lines 218-251).                  *)
(* walkTreeItems pushes to and pops from the array ids of its closure; the *)
(* model threads ids through and returns it with the function's result.    *)
(* items is <<"array", entries>> for a TreeDataItem[] and <<"item", i>>    *)
(* for a single TreeDataItem; a result of undefined is falsy: FALSE.       *)
(***************************************************************************)
RECURSIVE walkTreeItems(_, _, _, _, _)
RECURSIVE walkTreeItemsLoop(_, _, _, _, _, _)

\* the loop with line 240 left out: an entry off the path stays in ids
walkTreeItemsLoopNoPop(d, xAll, arr, k, targetId, ids) ==
    IF k > Len(arr) THEN [ret |-> FALSE, ids |-> ids]
    ELSE LET pushed == Append(ids, d.id[arr[k]])
             r == walkTreeItems(d, xAll, <<"item", arr[k]>>, targetId, pushed)
         IN IF r.ret /\ ~xAll THEN [ret |-> TRUE, ids |-> r.ids]
            ELSE walkTreeItemsLoop(d, xAll, arr, k + 1, targetId, r.ids)

\* the for loop of lines 235-241, from index k on
walkTreeItemsLoop(d, xAll, arr, k, targetId, ids) ==
    IF k > Len(arr) THEN [ret |-> FALSE, ids |-> ids]
    ELSE LET pushed == Append(ids, d.id[arr[k]])
             r == walkTreeItems(d, xAll, <<"item", arr[k]>>, targetId, pushed)
         IN IF r.ret /\ ~xAll THEN [ret |-> TRUE, ids |-> r.ids]
            ELSE walkTreeItemsLoop(d, xAll, arr, k + 1, targetId,
                                   IF ~xAll THEN Front(r.ids) ELSE r.ids)

\* walkTreeItems with the tests of lines 242 and 244 in the opposite order: an
\* entry with children is searched before its own id is compared
walkTreeItemsChildrenFirst(d, xAll, items, targetId, ids) ==
    IF items[1] = "array" THEN walkTreeItemsLoop(d, xAll, items[2], 1, targetId, ids)
    ELSE IF d.children[items[2]]
         THEN walkTreeItems(d, xAll, <<"array", Children(d, items[2])>>, targetId, ids)
    ELSE IF ~xAll /\ d.id[items[2]] = targetId THEN [ret |-> TRUE, ids |-> ids]
    ELSE [ret |-> FALSE, ids |-> ids]

walkTreeItems(d, xAll, items, targetId, ids) ==
    IF items[1] = "array" THEN walkTreeItemsLoop(d, xAll, items[2], 1, targetId, ids)
    ELSE IF ~xAll /\ d.id[items[2]] = targetId THEN [ret |-> TRUE, ids |-> ids]
    ELSE IF d.children[items[2]]
         THEN walkTreeItems(d, xAll, <<"array", Children(d, items[2])>>, targetId, ids)
    ELSE [ret |-> FALSE, ids |-> ids]

\* props.data as walkTreeItems and TreeItem receive it
DataItems(d) == IF d.isArray THEN <<"array", Children(d, 0)>> ELSE <<"item", 1>>

\* the useMemo callback of lines 218-251
expandedItemIdsMemo(d, initId, xAll) ==
    IF initId = Undefined THEN <<>>
    ELSE walkTreeItems(d, xAll, DataItems(d), initId, <<>>).ids

\* TreeItem, line 330: an entry with a children field renders as a TreeNode
IsTreeNode(d, i) == d.children[i]

\* TreeNode, lines 391-393: the initial accordion value of every branch
TreeNodeInitialValue(d, ids) == {i \in Nodes(d) : IsTreeNode(d, i) /\ Includes(ids, d.id[i])}

(***************************************************************************)
(* Tree data the specifications draw from.                                 *)
(***************************************************************************)
Tree(n, par, br, dup, arr) ==
    [n |-> n, parent |-> par, children |-> [i \in 1..n |-> i \in br],
     id |-> [i \in 1..n |-> IF i = dup[1] THEN IdNames[dup[2]] ELSE IdNames[i]],
     isArray |-> arr, disabled |-> {}, draggable |-> {}, notDroppable |-> {},
     onClick |-> {}]

\* parent vectors of forests of n entries numbered in depth-first pre-order
PreOrder(n, par) ==
    \A i \in 2..n : par[i] \in {0, i - 1} \cup Ancestors([parent |-> par], i - 1)

ParentVectors(n) == {par \in [1..n -> 0..(n - 1)] : par[1] = 0 /\ PreOrder(n, par)}

\* the entries with a children field: every parent, and any other entry (children: [])
BranchSets(n, par) == {br \in SUBSET (1..n) : \A i \in 1..n : par[i] # 0 => par[i] \in br}

\* ids unique (<<0, 0>>), or entry dup[1] repeating the id of the earlier entry dup[2]
Dups(n) == {<<0, 0>>} \cup {dup \in (1..n) \X (1..n) : dup[2] < dup[1]}

\* data is an array, or (a forest with one top-level entry) that single entry
Shapes(n, par) == {TRUE} \cup (IF \A i \in 2..n : par[i] # 0 THEN {FALSE} ELSE {})

PathDataOf(n) ==
    UNION { UNION { { Tree(n, par, br, dup, arr) : dup \in Dups(n), arr \in Shapes(n, par) } :
                    br \in BranchSets(n, par) } :
            par \in ParentVectors(n) }

\* every tree of at most MaxNodes entries
PathData == UNION { PathDataOf(n) : n \in 1..MaxNodes }

TargetIds == {Undefined, AbsentId} \cup {IdNames[i] : i \in 1..MaxNodes}

(***************************************************************************)
(* Initial state: the props are given, nothing has rendered.               *)
(***************************************************************************)
NoItem == 0     \* draggedItem null; item undefined

\* no event handled yet.  An event records its type, its target entry, the
\* draggedItem of the render its handler closed over, and what the handler did
\* to the event object
NoEvent == [type |-> "none", target |-> NoItem, draggedItem |-> NoItem,
            defaultPrevented |-> FALSE, dataTransfer |-> Undefined]

Pending == "pending"                \* the function has not returned yet

\* createTreeData has not returned yet
NoTreeData ==
    [returned |-> FALSE, n |-> 0, id |-> <<>>, children |-> <<>>, childItems |-> <<>>,
     rootItems |-> <<>>]

\* no second TreeView is mounted
NoOther ==
    [mounted |-> FALSE, selectedItemId |-> Undefined, draggedItem |-> NoItem,
     isDragOver |-> {}, value |-> {}, calls |-> <<>>, defaultPrevented |-> FALSE,
     dataTransfer |-> Undefined, event |-> [type |-> "none", target |-> NoItem]]

\* no TreeIcon rendered, createTreeData not called
PureIdle ==
    /\ iconProps = <<>>
    /\ iconRendered = Pending
    /\ flatItems = <<>>
    /\ treeData = NoTreeData

\* the props of a TreeView that has not rendered yet
TreeViewInit(D, T, X, S, G) ==
    /\ data \in D
    /\ initialSelectedItemId \in T
    /\ expandAll \in X
    /\ onSelectChange \in S
    /\ onDocumentDrag \in G
    /\ mounted = FALSE
    /\ expandedItemIds = <<>>
    /\ value = {}
    /\ selectedItemId = Undefined
    /\ draggedItem = NoItem
    /\ isDragOver = {}
    /\ gesture = "none"
    /\ event = NoEvent
    /\ calls = <<>>

InitWith(D, T, X, S, G) == TreeViewInit(D, T, X, S, G) /\ PureIdle /\ other = NoOther

(***************************************************************************)
(* First render of TreeView (lines 183-187, 218-251) and of every TreeNode *)
(* and TreeLeaf (lines 391-395, 518).                                      *)
(***************************************************************************)
Mount ==
    /\ ~mounted
    /\ mounted' = TRUE
    /\ selectedItemId' = initialSelectedItemId
    /\ draggedItem' = NoItem
    /\ expandedItemIds' = expandedItemIdsMemo(data, initialSelectedItemId, expandAll)
    /\ value' = TreeNodeInitialValue(data, expandedItemIds')
    /\ isDragOver' = {}
    /\ UNCHANGED <<props, gesture, event, calls, pure, other>>

\* a re-render that also sets the selection and the accordion values anew from
\* the new prop
RerenderSynced(initId) ==
    /\ mounted
    /\ initId # initialSelectedItemId
    /\ initialSelectedItemId' = initId
    /\ expandedItemIds' = expandedItemIdsMemo(data, initId, expandAll)
    /\ selectedItemId' = initId
    /\ value' = TreeNodeInitialValue(data, expandedItemIds')
    /\ UNCHANGED <<data, expandAll, onSelectChange, onDocumentDrag, mounted,
                   draggedItem, isDragOver, gesture, event, calls, pure, other>>

\* the caller renders the mounted TreeView again with another
\* initialSelectedItemId: the useMemo of lines 218-251 runs again (its
\* dependencies, line 251), the useState calls of lines 183-185 and 391-393
\* ignore their argument after the first render
Rerender(initId) ==
    /\ mounted
    /\ initId # initialSelectedItemId
    /\ initialSelectedItemId' = initId
    /\ expandedItemIds' = expandedItemIdsMemo(data, initId, expandAll)
    /\ UNCHANGED <<data, expandAll, onSelectChange, onDocumentDrag, mounted, value,
                   selectedItemId, draggedItem, isDragOver, gesture, event, calls,
                   pure, other>>

(***************************************************************************)
(* Event handlers.  A handler is a function of the component state at the  *)
(* last render, s, and the entry, item, of the TreeNode or TreeLeaf it     *)
(* belongs to; it returns the state after the handler, with the callbacks  *)
(* it invoked appended to s.calls in the order of the calls.               *)
(***************************************************************************)
\* the synthetic target {id: '', name: 'parent_div'} of the root drop zone (line 272)
ParentDiv(d) == d.n + 1

IdOf(d, item) == IF item \in Nodes(d) THEN d.id[item] ELSE ""

\* item?.id
OptionalId(d, item) == IF item = NoItem THEN Undefined ELSE IdOf(d, item)

Call(fn, item, target) == [fn |-> fn, item |-> item, target |-> target]

\* the state the handlers of one event start from
HandlerState ==
    [selectedItemId |-> selectedItemId, draggedItem |-> draggedItem,
     isDragOver |-> isDragOver, value |-> value, calls |-> <<>>,
     defaultPrevented |-> FALSE, dataTransfer |-> Undefined]

\* handleSelectChange with line 191 left out: the listener is notified, the
\* selection is not replaced
handleSelectChangeNoSet(s, item) ==
    IF onSelectChange
    THEN [s EXCEPT !.calls = Append(@, Call("onSelectChange", item, NoItem))]
    ELSE s

\* a handleSelectChange that clears the selection when the selected entry is
\* given again
handleSelectChangeToggle(s, item) ==
    LET it == IF s.selectedItemId = OptionalId(data, item) THEN NoItem ELSE item
        s1 == [s EXCEPT !.selectedItemId = OptionalId(data, it)]
    IN IF onSelectChange
       THEN [s1 EXCEPT !.calls = Append(@, Call("onSelectChange", it, NoItem))]
       ELSE s1

\* TreeView.handleSelectChange, lines 189-197
handleSelectChange(s, item) ==
    LET s1 == [s EXCEPT !.selectedItemId = OptionalId(data, item)]
    IN IF onSelectChange
       THEN [s1 EXCEPT !.calls = Append(@, Call("onSelectChange", item, NoItem))]
       ELSE s1

\* TreeView.handleDragStart, lines 200-202
handleDragStart(s, item) == [s EXCEPT !.draggedItem = item]

\* a handleDrop that also selects the drop target
handleDropSelecting(s, targetItem) ==
    LET s1 == IF /\ s.draggedItem # NoItem
                 /\ onDocumentDrag
                 /\ IdOf(data, s.draggedItem) # IdOf(data, targetItem)
              THEN [s EXCEPT !.calls =
                        Append(@, Call("onDocumentDrag", s.draggedItem, targetItem))]
              ELSE s
    IN [s1 EXCEPT !.draggedItem = NoItem, !.selectedItemId = IdOf(data, targetItem)]

\* handleDrop without the comparison of the two ids in line 207
handleDropNoIdCheck(s, targetItem) ==
    LET s1 == IF s.draggedItem # NoItem /\ onDocumentDrag
              THEN [s EXCEPT !.calls =
                        Append(@, Call("onDocumentDrag", s.draggedItem, targetItem))]
              ELSE s
    IN [s1 EXCEPT !.draggedItem = NoItem]

\* handleDrop with line 210 left out: the dragged entry stays recorded
handleDropNoReset(s, targetItem) ==
    IF /\ s.draggedItem # NoItem
       /\ onDocumentDrag
       /\ IdOf(data, s.draggedItem) # IdOf(data, targetItem)
    THEN [s EXCEPT !.calls = Append(@, Call("onDocumentDrag", s.draggedItem, targetItem))]
    ELSE s

\* TreeView.handleDrop, lines 205-211
handleDrop(s, targetItem) ==
    LET s1 == IF /\ s.draggedItem # NoItem
                 /\ onDocumentDrag
                 /\ IdOf(data, s.draggedItem) # IdOf(data, targetItem)
              THEN [s EXCEPT !.calls =
                        Append(@, Call("onDocumentDrag", s.draggedItem, targetItem))]
              ELSE s
    IN [s1 EXCEPT !.draggedItem = NoItem]

\* item.onClick?.() with the call left out
itemOnClickSkipped(s, item) == s

\* item.onClick?.()
itemOnClick(s, item) ==
    IF item \in data.onClick
    THEN [s EXCEPT !.calls = Append(@, Call("onClick", item, NoItem))]
    ELSE s

\* e.preventDefault()
preventDefault(s) == [s EXCEPT !.defaultPrevented = TRUE]

\* setIsDragOver(b) of the TreeNode or TreeLeaf of item
setIsDragOver(s, item, b) ==
    [s EXCEPT !.isDragOver = IF b THEN @ \cup {item} ELSE @ \ {item}]

\* the accordion of a TreeNode toggles on a click of its trigger and reports the
\* new value through onValueChange, line 432: setValue(s)
TreeNodeOnValueChange(s, item) ==
    [s EXCEPT !.value = IF item \in @ THEN @ \ {item} ELSE @ \cup {item}]

\* TreeNode, AccordionTrigger onClick, lines 442-445
TreeNodeOnClick(s, item) ==
    TreeNodeOnValueChange(itemOnClick(handleSelectChange(s, item), item), item)

\* TreeNode.onDragStart, lines 398-406
TreeNodeOnDragStart(s, item) ==
    IF item \notin data.draggable THEN preventDefault(s)
    ELSE handleDragStart([s EXCEPT !.dataTransfer = IdOf(data, item)], item)

\* a leaf onDragOver that also rejects a target inside the dragged entry
TreeLeafOnDragOverNoDescendant(s, item) ==
    IF /\ item \notin data.notDroppable
       /\ item \notin data.disabled
       /\ s.draggedItem # NoItem
       /\ IdOf(data, s.draggedItem) # IdOf(data, item)
       /\ s.draggedItem \notin Ancestors(data, item)
    THEN setIsDragOver(preventDefault(s), item, TRUE)
    ELSE s

\* TreeNode.onDragOver, lines 408-414
TreeNodeOnDragOver(s, item) ==
    IF /\ item \notin data.notDroppable
       /\ s.draggedItem # NoItem
       /\ IdOf(data, s.draggedItem) # IdOf(data, item)
    THEN setIsDragOver(preventDefault(s), item, TRUE)
    ELSE s

\* TreeNode.onDragLeave, lines 416-418
TreeNodeOnDragLeave(s, item) == setIsDragOver(s, item, FALSE)

\* TreeNode.onDrop, lines 420-424
TreeNodeOnDrop(s, item) ==
    handleDrop(setIsDragOver(preventDefault(s), item, FALSE), item)

\* a leaf onClick that runs item.onClick before handleSelectChange
TreeLeafOnClickReversed(s, item) ==
    IF item \in data.disabled THEN s
    ELSE handleSelectChange(itemOnClick(s, item), item)

\* TreeLeaf, onClick, lines 561-565
TreeLeafOnClick(s, item) ==
    IF item \in data.disabled THEN s
    ELSE itemOnClick(handleSelectChange(s, item), item)

\* TreeLeaf.onDragStart, lines 521-528
TreeLeafOnDragStart(s, item) ==
    IF item \notin data.draggable \/ item \in data.disabled THEN preventDefault(s)
    ELSE handleDragStart([s EXCEPT !.dataTransfer = IdOf(data, item)], item)

\* TreeLeaf.onDragOver, lines 530-535
TreeLeafOnDragOver(s, item) ==
    IF /\ item \notin data.notDroppable
       /\ item \notin data.disabled
       /\ s.draggedItem # NoItem
       /\ IdOf(data, s.draggedItem) # IdOf(data, item)
    THEN setIsDragOver(preventDefault(s), item, TRUE)
    ELSE s

\* a drag-leave that clears the flag of every entry
TreeLeafOnDragLeaveAll(s, item) == [s EXCEPT !.isDragOver = {}]

\* TreeLeaf.onDragLeave, lines 537-539
TreeLeafOnDragLeave(s, item) == setIsDragOver(s, item, FALSE)

\* a leaf onDrop without the test of line 542
TreeLeafOnDropNoCheck(s, item) ==
    handleDrop(setIsDragOver(preventDefault(s), item, FALSE), item)

\* TreeLeaf.onDrop, lines 541-546
TreeLeafOnDrop(s, item) ==
    IF item \in data.disabled THEN s
    ELSE handleDrop(setIsDragOver(preventDefault(s), item, FALSE), item)

\* a root drop zone that only ends the drag and reports nothing
RootOnDropSilent(s) == [s EXCEPT !.draggedItem = NoItem]

\* the root drop zone, onDrop, line 272
RootOnDrop(s) == handleDrop(s, ParentDiv(data))

(***************************************************************************)
(* One action per DOM event.  An event is delivered to the handler bound   *)
(* on its target, whatever the entry's attributes; the state the handler   *)
(* returns is the state of the next render.  gesture is the browser's side *)
(* of drag and drop: a gesture starts with a dragstart that is not         *)
(* cancelled, or outside the tree ("foreign"), and ends with a drop or     *)
(* with its cancellation.                                                  *)
(***************************************************************************)
Handled(type, target, s, g) ==
    /\ selectedItemId' = s.selectedItemId
    /\ draggedItem' = s.draggedItem
    /\ isDragOver' = s.isDragOver
    /\ value' = s.value
    /\ calls' = s.calls
    /\ event' = [type |-> type, target |-> target, draggedItem |-> draggedItem,
                 defaultPrevented |-> s.defaultPrevented,
                 dataTransfer |-> s.dataTransfer]
    /\ gesture' = g
    /\ UNCHANGED <<props, mounted, expandedItemIds, pure, other>>

Click(item) ==
    /\ mounted /\ item \in Nodes(data)
    /\ LET s == IF IsTreeNode(data, item) THEN TreeNodeOnClick(HandlerState, item)
                ELSE TreeLeafOnClick(HandlerState, item)
       IN Handled("click", item, s, gesture)

DragStart(item) ==
    /\ mounted /\ item \in Nodes(data)
    /\ gesture = "none"
    /\ LET s == IF IsTreeNode(data, item) THEN TreeNodeOnDragStart(HandlerState, item)
                ELSE TreeLeafOnDragStart(HandlerState, item)
       IN Handled("dragstart", item, s, IF s.defaultPrevented THEN "none" ELSE "own")

\* a drag that starts outside the tree (a file, a selection, another component)
\* enters it: no handler of the tree runs
ForeignDrag ==
    /\ mounted
    /\ gesture = "none"
    /\ gesture' = "foreign"
    /\ UNCHANGED <<props, mounted, expandedItemIds, value, selectedItemId, draggedItem,
                   isDragOver, event, calls, pure, other>>

DragOver(item) ==
    /\ mounted /\ item \in Nodes(data)
    /\ gesture # "none"
    /\ LET s == IF IsTreeNode(data, item) THEN TreeNodeOnDragOver(HandlerState, item)
                ELSE TreeLeafOnDragOver(HandlerState, item)
       IN Handled("dragover", item, s, gesture)

DragLeave(item) ==
    /\ mounted /\ item \in Nodes(data)
    /\ gesture # "none"
    /\ LET s == IF IsTreeNode(data, item) THEN TreeNodeOnDragLeave(HandlerState, item)
                ELSE TreeLeafOnDragLeave(HandlerState, item)
       IN Handled("dragleave", item, s, gesture)

Drop(item) ==
    /\ mounted /\ item \in Nodes(data)
    /\ gesture # "none"
    /\ LET s == IF IsTreeNode(data, item) THEN TreeNodeOnDrop(HandlerState, item)
                ELSE TreeLeafOnDrop(HandlerState, item)
       IN Handled("drop", item, s, "none")

DropOnRoot ==
    /\ mounted
    /\ gesture # "none"
    /\ Handled("drop", ParentDiv(data), RootOnDrop(HandlerState), "none")

\* the gesture ends without a drop on the tree (released outside every target, or
\* aborted): dragend; TreeNode and TreeLeaf bind onDragStart, onDragOver,
\* onDragLeave and onDrop only (lines 446-450, 566-570), so no handler runs
DragEnd ==
    /\ mounted
    /\ gesture # "none"
    /\ gesture' = "none"
    /\ event' = [type |-> "dragend", target |-> NoItem, draggedItem |-> draggedItem,
                 defaultPrevented |-> FALSE, dataTransfer |-> Undefined]
    /\ calls' = <<>>
    /\ UNCHANGED <<props, mounted, expandedItemIds, value, selectedItemId, draggedItem,
                   isDragOver, pure, other>>

(***************************************************************************)
(* The interaction specification: one tree,                                *)
(*     a (branch) [ b (leaf) ],  c (leaf)                                  *)
(* in which at most MaxSpecial entries differ from an enabled, draggable   *)
(* entry with droppable unset, each in any way: disabled: true, droppable: *)
(* false, draggable unset.  Entries a and b have an onClick, c has none.   *)
(***************************************************************************)
InteractionTree == Tree(3, <<0, 1, 0>>, {1}, <<0, 0>>, TRUE)

\* <<disabled, droppable: false, draggable unset>>
Attributes ==
    {at \in (SUBSET (1..3)) \X (SUBSET (1..3)) \X (SUBSET (1..3)) :
        Cardinality(at[1] \cup at[2] \cup at[3]) <= MaxSpecial}

InteractionData ==
    { [InteractionTree EXCEPT !.disabled = at[1], !.notDroppable = at[2],
                              !.draggable = (1..3) \ at[3], !.onClick = {1, 2}] :
        at \in Attributes }

\* the values of the prop initialSelectedItemId: not supplied, or the leaf b
InitialSelectedItemIds == {Undefined, "b"}

Init == InitWith(InteractionData, InitialSelectedItemIds, {FALSE}, BOOLEAN, BOOLEAN)

Next ==
    \/ Mount
    \/ \E initId \in InitialSelectedItemIds : Rerender(initId)
    \/ \E item \in 1..3 : Click(item)
    \/ \E item \in 1..3 : DragStart(item)
    \/ ForeignDrag
    \/ \E item \in 1..3 : DragOver(item)
    \/ \E item \in 1..3 : DragLeave(item)
    \/ \E item \in 1..3 : Drop(item)
    \/ DropOnRoot
    \/ DragEnd

Spec == Init /\ [][Next]_vars

InitPath == InitWith(PathData, TargetIds, BOOLEAN, {TRUE}, {TRUE})

NextPath == Mount

SpecPath == InitPath /\ [][NextPath]_vars

(***************************************************************************)
(* TreeIcon, lines 650-676: a pure function of its props.  An icon is a    *)
(* component, named here by a string; a field that is not set is Undefined *)
(* (falsy).  TreeLeaf passes no isOpen (line 573-577), which is falsy like *)
(* isOpen = false.                                                         *)
(***************************************************************************)
Fragment == "<></>"                 \* the empty fragment of line 674

\* TreeIcon with the tests of lines 666 and 668 in the opposite order
TreeIconOpenFirst(p) ==
    LET Icon == IF p.isOpen /\ p.item.openIcon # Undefined THEN p.item.openIcon
                ELSE IF p.isSelected /\ p.item.selectedIcon # Undefined
                     THEN p.item.selectedIcon
                ELSE IF p.item.icon # Undefined THEN p.item.icon
                ELSE p.default
    IN IF Icon # Undefined THEN Icon ELSE Fragment

\* TreeIcon, lines 650-676
TreeIcon(p) ==
    LET Icon == IF p.isSelected /\ p.item.selectedIcon # Undefined
                THEN p.item.selectedIcon
                ELSE IF p.isOpen /\ p.item.openIcon # Undefined THEN p.item.openIcon
                ELSE IF p.item.icon # Undefined THEN p.item.icon
                ELSE p.default
    IN IF Icon # Undefined THEN Icon ELSE Fragment

\* the icon fields of a TreeDataItem, lines 141-143
IconItems ==
    [selectedIcon : {Undefined, "FolderOpen"}, openIcon : {Undefined, "FolderOpenDot"},
     icon : {Undefined, "FileText"}]

\* the props TreeNode (lines 452-457) and TreeLeaf (lines 573-577) pass; the
\* default is defaultNodeIcon or defaultLeafIcon, either of which may be missing
IconProps ==
    [item : IconItems, isOpen : BOOLEAN, isSelected : BOOLEAN,
     default : {Undefined, "Folder", "File"}]

\* a TreeView that is not rendered: the state beside a call of a pure function
TreeViewIdle ==
    TreeViewInit({InteractionTree}, {Undefined}, {FALSE}, {FALSE}, {FALSE})

InitIcon ==
    /\ TreeViewIdle
    /\ other = NoOther
    /\ iconProps \in IconProps
    /\ iconRendered = Pending
    /\ flatItems = <<>>
    /\ treeData = NoTreeData

\* one rendering of TreeIcon
RenderTreeIcon ==
    /\ iconRendered = Pending
    /\ iconRendered' = TreeIcon(iconProps)
    /\ UNCHANGED <<props, mounted, expandedItemIds, value, selectedItemId, draggedItem,
                   isDragOver, gesture, event, calls, iconProps, flatItems, treeData,
                   other>>

NextIcon == RenderTreeIcon

SpecIcon == InitIcon /\ [][NextIcon]_vars

(***************************************************************************)
(* createTreeData, tree-view.tsx lines 157-193.  The argument is a         *)
(* sequence of records [id, parentId, type]; a field that is not given is  *)
(* Undefined.  The TreeDataItem objects the first pass creates are named   *)
(* by the index of the record they are built from; itemMap keeps, for each *)
(* id, the object of the last record with that id (Map.set overwrites).    *)
(* The result has the encoding of data (n, id, children: whether the       *)
(* object has a children array), the children arrays themselves            *)
(* (childItems) and the returned array (rootItems).                        *)
(***************************************************************************)
\* itemMap.get(id) of a one-pass createTreeData: while record k is processed the
\* map holds the records up to k only
itemMapGetSeenSoFar(items, k, id) ==
    LET S == {i \in 1..k : items[i].id = id}
    IN IF S = {} THEN NoItem ELSE CHOOSE i \in S : \A j \in S : j <= i

\* itemMap.get(id) while the second pass processes record k (lines 180 and 183):
\* the first pass has set every record by then
itemMapGet(items, k, id) ==
    LET S == {i \in 1..Len(items) : items[i].id = id}
    IN IF S = {} THEN NoItem ELSE CHOOSE i \in S : \A j \in S : j <= i

\* a first pass that gives every object a children array
firstPassAllFolders(items) == [i \in 1..Len(items) |-> TRUE]

\* the first pass, lines 170-176: children: type === 'folder' ? [] : undefined
firstPass(items) == [i \in 1..Len(items) |-> items[i].type = "folder"]

\* the second pass from record k on, lines 179-190
RECURSIVE secondPass(_, _, _)

\* a second pass that returns a record whose parent takes no children, or names
\* itself, as a root-level entry as well
secondPassRooting(items, k, t) ==
    IF k > Len(items) THEN t
    ELSE LET item == items[k]
             treeItem == itemMapGet(items, k, item.id)
             parent == itemMapGet(items, k, item.parentId)
             t1 == IF item.parentId # Undefined /\ parent # NoItem /\ t.children[parent]
                   THEN [t EXCEPT !.childItems[parent] = Append(@, treeItem)]
                   ELSE t
             t2 == IF item.parentId = Undefined \/ parent = NoItem \/ parent = treeItem
                      \/ ~t.children[parent]
                   THEN [t1 EXCEPT !.rootItems = Append(@, treeItem)]
                   ELSE t1
         IN secondPass(items, k + 1, t2)

secondPass(items, k, t) ==
    IF k > Len(items) THEN t
    ELSE LET item == items[k]
             treeItem == itemMapGet(items, k, item.id)
             parent == itemMapGet(items, k, item.parentId)
             t1 == IF item.parentId # Undefined
                   THEN IF parent # NoItem /\ t.children[parent]
                        THEN [t EXCEPT !.childItems[parent] = Append(@, treeItem)]
                        ELSE t
                   ELSE [t EXCEPT !.rootItems = Append(@, treeItem)]
         IN secondPass(items, k + 1, t1)

\* createTreeData, lines 157-193
createTreeData(items) ==
    secondPass(items, 1,
               [returned |-> TRUE, n |-> Len(items),
                id |-> [i \in 1..Len(items) |-> items[i].id],
                children |-> firstPass(items),
                childItems |-> [i \in 1..Len(items) |-> <<>>],
                rootItems |-> <<>>])

\* the ids of n records: IdNames in order, record dup[1] repeating the id of the
\* earlier record dup[2] unless dup = <<0, 0>>
FlatIds(n, dup) == [i \in 1..n |-> IF i = dup[1] THEN IdNames[dup[2]] ELSE IdNames[i]]

\* parentId: not given, the id of a record, or an id no record has
ParentIds(n) == {Undefined, AbsentId} \cup {IdNames[i] : i \in 1..n}

\* type?: 'folder' | 'file'
Types == {"folder", "file", Undefined}

\* n records with the given ids, parentIds and types
FlatItems(n, ids, pa, ty) ==
    [i \in 1..n |-> [id |-> ids[i], parentId |-> pa[i], type |-> ty[i]]]

InitTreeData ==
    /\ TreeViewIdle
    /\ other = NoOther
    /\ iconProps = <<>>
    /\ iconRendered = Pending
    /\ \E n \in 0..MaxRecords :
          \E dup \in Dups(n), pa \in [1..n -> ParentIds(n)], ty \in [1..n -> Types] :
              flatItems = FlatItems(n, FlatIds(n, dup), pa, ty)
    /\ treeData = NoTreeData

\* one call of createTreeData
CallCreateTreeData ==
    /\ ~treeData.returned
    /\ treeData' = createTreeData(flatItems)
    /\ UNCHANGED <<props, mounted, expandedItemIds, value, selectedItemId, draggedItem,
                   isDragOver, gesture, event, calls, iconProps, iconRendered,
                   flatItems, other>>

NextTreeData == CallCreateTreeData

SpecTreeData == InitTreeData /\ [][NextTreeData]_vars

(***************************************************************************)
(* Two TreeViews on one page, rendered with the same props.  Every useState *)
(* cell belongs to the component instance that declares it (lines 183-187, *)
(* 391-395, 518), and a handler closes over the cells of its own instance: *)
(* the handlers of the second TreeView are the operators above applied to  *)
(* its state, other.  The browser runs one drag gesture at a time, for     *)
(* both.                                                                    *)
(***************************************************************************)
\* the state the handlers of one event of the second TreeView start from
OtherHandlerState ==
    [other EXCEPT !.calls = <<>>, !.defaultPrevented = FALSE, !.dataTransfer = Undefined]

OtherHandled(type, target, s, g) ==
    /\ other' = [s EXCEPT !.event = [type |-> type, target |-> target]]
    /\ gesture' = g
    /\ UNCHANGED <<props, mounted, expandedItemIds, value, selectedItemId, draggedItem,
                   isDragOver, event, calls, pure>>

\* the first render of the second TreeView
OtherMount ==
    /\ ~other.mounted
    /\ other' = [NoOther EXCEPT
                    !.mounted = TRUE,
                    !.selectedItemId = initialSelectedItemId,
                    !.value = TreeNodeInitialValue(data,
                                  expandedItemIdsMemo(data, initialSelectedItemId,
                                                      expandAll))]
    /\ UNCHANGED <<props, mounted, expandedItemIds, value, selectedItemId, draggedItem,
                   isDragOver, gesture, event, calls, pure>>

OtherClick(item) ==
    /\ other.mounted /\ item \in Nodes(data)
    /\ LET s == IF IsTreeNode(data, item) THEN TreeNodeOnClick(OtherHandlerState, item)
                ELSE TreeLeafOnClick(OtherHandlerState, item)
       IN OtherHandled("click", item, s, gesture)

OtherDragStart(item) ==
    /\ other.mounted /\ item \in Nodes(data)
    /\ gesture = "none"
    /\ LET s == IF IsTreeNode(data, item)
                THEN TreeNodeOnDragStart(OtherHandlerState, item)
                ELSE TreeLeafOnDragStart(OtherHandlerState, item)
       IN OtherHandled("dragstart", item, s,
                       IF s.defaultPrevented THEN "none" ELSE "other")

\* a drop handler of the second TreeView that finds the dragged entry in a cell
\* shared by all TreeViews of the page
OtherDropAmbient(item) ==
    /\ other.mounted /\ item \in Nodes(data)
    /\ gesture # "none"
    /\ LET s0 == [OtherHandlerState EXCEPT !.draggedItem = draggedItem]
           s == IF IsTreeNode(data, item) THEN TreeNodeOnDrop(s0, item)
                ELSE TreeLeafOnDrop(s0, item)
       IN OtherHandled("drop", item, s, "none")

OtherDrop(item) ==
    /\ other.mounted /\ item \in Nodes(data)
    /\ gesture # "none"
    /\ LET s == IF IsTreeNode(data, item) THEN TreeNodeOnDrop(OtherHandlerState, item)
                ELSE TreeLeafOnDrop(OtherHandlerState, item)
       IN OtherHandled("drop", item, s, "none")

\* the tree a [ b ], c with every entry draggable: true
DraggableData == [InteractionTree EXCEPT !.draggable = 1..3]

InitTwo == InitWith({DraggableData}, {Undefined}, {FALSE}, {TRUE}, {TRUE})

NextTwo ==
    \/ Mount
    \/ OtherMount
    \/ \E item \in 1..3 : Click(item)
    \/ \E item \in 1..3 : OtherClick(item)
    \/ \E item \in 1..3 : DragStart(item)
    \/ \E item \in 1..3 : OtherDragStart(item)
    \/ \E item \in 1..3 : Drop(item)
    \/ \E item \in 1..3 : OtherDrop(item)
    \/ DragEnd

SpecTwo == InitTwo /\ [][NextTwo]_vars

(***************************************************************************)
(* Properties.                                                             *)
(***************************************************************************)
\* the entries rendered with the selected styling (lines 439 and 556)
Selected == {i \in Nodes(data) : selectedItemId = data.id[i]}

\* the invocations of the drop callback by the last handler
DropCalls == {k \in 1..Len(calls) : calls[k].fn = "onDocumentDrag"}

\* C1: in a tree with unique ids at most one entry is marked selected, and after a
\* click on an entry that is not disabled the marked entry is the clicked one.
C1_SingleSelection ==
    UniqueIds(data) =>
        /\ Cardinality(Selected) <= 1
        /\ (event.type = "click" /\ event.target \notin data.disabled)
               => Selected = {event.target}

\* C1 witness: an enabled entry other than the initially selected one was clicked
\* and is the one marked selected.
C1_Witness ==
    /\ event.type = "click" /\ event.target \notin data.disabled
    /\ initialSelectedItemId # Undefined
    /\ data.id[event.target] # initialSelectedItemId
    /\ Selected = {event.target}

\* C2: a click on a disabled entry, branch or leaf, changes no selection, notifies
\* no listener and invokes no onClick.
C2_DisabledClickInert ==
    [][\A item \in Nodes(data) :
          (item \in data.disabled /\ Click(item))
              => (selectedItemId' = selectedItemId /\ calls' = <<>>)]_vars

\* C3: data an array, ids unique, expandAll unset: for a target at depth d the
\* expansion path has length d + 1, is the ids from the top-level ancestor down to
\* the target, and every ancestor branch of the target is initially open.
C3_ExpansionPath ==
    (mounted /\ data.isArray /\ UniqueIds(data) /\ ~expandAll) =>
        \A i \in Nodes(data) :
            data.id[i] = initialSelectedItemId =>
                /\ Len(expandedItemIds) = Depth(data, i) + 1
                /\ expandedItemIds = PathTo(data, i)
                /\ Ancestors(data, i) \subseteq value

\* C3 witness: a target two levels down, behind an earlier sibling subtree, has
\* been given its path of three ids.
C3_Witness ==
    /\ mounted /\ data.isArray /\ UniqueIds(data) /\ ~expandAll
    /\ \E i \in Nodes(data) :
          /\ data.id[i] = initialSelectedItemId
          /\ Depth(data, i) = 2
          /\ Len(expandedItemIds) = 3
          /\ \E j \in Nodes(data) : j < i /\ j \notin Ancestors(data, i)

\* C4: with expandAll set every branch is initially open, whatever
\* initialSelectedItemId is, supplied or not, naming an entry or not (stated for
\* data given as an array, the form the stories use).
C4_ExpandAll ==
    (mounted /\ expandAll /\ data.isArray) =>
        \A i \in Nodes(data) : IsTreeNode(data, i) => i \in value

\* C5: the drop callback never receives two entries with the same id; a drop of
\* the dragged entry on itself fires nothing.
C5_NoSelfDrop ==
    /\ \A k \in DropCalls :
          IdOf(data, calls[k].item) # IdOf(data, calls[k].target)
    /\ (event.type = "drop" /\ event.draggedItem # NoItem
          /\ IdOf(data, event.draggedItem) = IdOf(data, event.target))
           => DropCalls = {}

\* C5 witness: with a drop callback supplied, the dragged entry was dropped on
\* itself.
C5_Witness ==
    /\ onDocumentDrag
    /\ event.type = "drop" /\ event.draggedItem # NoItem
    /\ event.target = event.draggedItem
    /\ calls = <<>>

\* C6: while A is dragged, a drop on an entry B with another id fires the drop
\* callback, with (A, B), if and only if B is not disabled and B's droppable is
\* not false.
C6_DropEligibility ==
    (/\ onDocumentDrag
     /\ event.type = "drop" /\ event.target \in Nodes(data)
     /\ event.draggedItem # NoItem
     /\ IdOf(data, event.draggedItem) # IdOf(data, event.target)) =>
        IF event.target \notin data.disabled /\ event.target \notin data.notDroppable
        THEN calls = <<Call("onDocumentDrag", event.draggedItem, event.target)>>
        ELSE calls = <<>>

\* C7: after a drop on any entry the drag state is idle and the entry's
\* drag-over flag is false.
C7_DropResets ==
    (event.type = "drop" /\ event.target \in Nodes(data)) =>
        (draggedItem = NoItem /\ event.target \notin isDragOver)

\* C8: a dragstart on an entry that is disabled or has no draggable: true is
\* cancelled and leaves the drag state as it was.
C8_DragStartRejected ==
    (/\ event.type = "dragstart"
     /\ (event.target \notin data.draggable \/ event.target \in data.disabled)) =>
        (event.defaultPrevented /\ draggedItem = event.draggedItem)

\* C9: a dragover is accepted only if a drag is in progress, the target's
\* droppable is not false, the target is not disabled and its id differs from
\* the dragged entry's.
C9_DragOverAccepted ==
    (event.type = "dragover" /\ event.defaultPrevented) =>
        /\ event.draggedItem # NoItem
        /\ event.target \notin data.notDroppable
        /\ event.target \notin data.disabled
        /\ IdOf(data, event.draggedItem) # IdOf(data, event.target)

\* C10: the drag state is idle again once the gesture that set it has ended by
\* cancellation, and no dragged entry is recorded during a gesture that did not
\* start on an entry of the tree.
C10_DragLifecycle ==
    /\ event.type = "dragend" => draggedItem = NoItem
    /\ gesture = "foreign" => draggedItem = NoItem

\* the invocations of fn by the last handler
CallsOf(fn) == {k \in 1..Len(calls) : calls[k].fn = fn}

\* C11: a drop on the root drop zone while an entry A is the drag source calls a
\* supplied drop callback exactly once, with A and the synthetic target whose id
\* is the empty string, whatever the attributes of the entries, and leaves the
\* drag state idle.
C11_RootDropZone ==
    (/\ event.type = "drop" /\ event.target = ParentDiv(data)
     /\ event.draggedItem # NoItem) =>
        /\ IdOf(data, event.target) = ""
        /\ calls = IF onDocumentDrag
                   THEN <<Call("onDocumentDrag", event.draggedItem, ParentDiv(data))>>
                   ELSE <<>>
        /\ draggedItem = NoItem

\* C11 witness: with a drop callback supplied, a dragged entry was dropped on the
\* root drop zone and reported with the synthetic target.
C11_Witness ==
    /\ onDocumentDrag
    /\ event.type = "drop" /\ event.target = ParentDiv(data)
    /\ event.draggedItem \in Nodes(data)
    /\ calls = <<Call("onDocumentDrag", event.draggedItem, ParentDiv(data))>>
    /\ draggedItem = NoItem

\* C12: after a click on an entry that is not disabled, branch or leaf, the
\* selected id is the entry's id, the entry's onClick was invoked once if it has
\* one and not otherwise, a supplied onSelectChange listener was notified once,
\* with the clicked entry itself, and nothing else was called.
C12_ClickEffect ==
    (event.type = "click" /\ event.target \notin data.disabled) =>
        /\ selectedItemId = data.id[event.target]
        /\ Cardinality(CallsOf("onClick")) =
               (IF event.target \in data.onClick THEN 1 ELSE 0)
        /\ Cardinality(CallsOf("onSelectChange")) = (IF onSelectChange THEN 1 ELSE 0)
        /\ \A k \in 1..Len(calls) :
              /\ calls[k].fn \in {"onClick", "onSelectChange"}
              /\ calls[k].item = event.target

\* C12 witness: a click on an enabled branch with an onClick, with a listener
\* registered: both were called, and the branch is the selected entry.
C12_Witness ==
    /\ onSelectChange
    /\ event.type = "click" /\ event.target \notin data.disabled
    /\ IsTreeNode(data, event.target) /\ event.target \in data.onClick
    /\ Len(calls) = 2
    /\ selectedItemId = data.id[event.target]

\* C13: TreeIcon renders selectedIcon if the entry is selected and has one, else
\* openIcon if it is open and has one, else its own icon if it has one, else the
\* default icon if there is one, else nothing; with all three fields set,
\* selected and open gives selectedIcon, open and not selected gives openIcon,
\* neither gives icon.
C13_IconPriority ==
    iconRendered # Pending =>
        LET it == iconProps.item
            sel == iconProps.isSelected /\ it.selectedIcon # Undefined
            opn == iconProps.isOpen /\ it.openIcon # Undefined
        IN /\ sel => iconRendered = it.selectedIcon
           /\ (~sel /\ opn) => iconRendered = it.openIcon
           /\ (~sel /\ ~opn /\ it.icon # Undefined) => iconRendered = it.icon
           /\ (~sel /\ ~opn /\ it.icon = Undefined /\ iconProps.default # Undefined)
                  => iconRendered = iconProps.default
           /\ (~sel /\ ~opn /\ it.icon = Undefined /\ iconProps.default = Undefined)
                  => iconRendered = Fragment
           /\ (it.selectedIcon # Undefined /\ it.openIcon # Undefined
                 /\ it.icon # Undefined) =>
                  /\ (iconProps.isSelected /\ iconProps.isOpen)
                         => iconRendered = it.selectedIcon
                  /\ (iconProps.isOpen /\ ~iconProps.isSelected)
                         => iconRendered = it.openIcon
                  /\ (~iconProps.isOpen /\ ~iconProps.isSelected)
                         => iconRendered = it.icon

\* C13 witness: an entry with all three icon fields and a default was rendered
\* selected and open, and shows its selectedIcon.
C13_Witness ==
    /\ iconRendered # Pending
    /\ iconProps.item.selectedIcon # Undefined /\ iconProps.item.openIcon # Undefined
    /\ iconProps.item.icon # Undefined /\ iconProps.default # Undefined
    /\ iconProps.isSelected /\ iconProps.isOpen
    /\ iconRendered = iconProps.item.selectedIcon

\* the number of occurrences of x in seq
Count(seq, x) == Cardinality({k \in 1..Len(seq) : seq[k] = x})

Records == 1..Len(flatItems)

\* the objects reachable from the set S through children arrays
RECURSIVE ReachFrom(_, _)
ReachFrom(t, S) ==
    LET N == S \cup {o \in 1..t.n : \E p \in S : Count(t.childItems[p], o) > 0}
    IN IF N = S THEN S ELSE ReachFrom(t, N)

\* the objects reachable from the returned array
Reachable(t) == ReachFrom(t, {o \in 1..t.n : Count(t.rootItems, o) > 0})

\* how often object o occurs in the returned forest: in the returned array and
\* in the children arrays of the reachable objects
Occurrences(t, o) ==
    Count(t.rootItems, o)
    + Cardinality({pk \in Reachable(t) \X (1..t.n) :
                      /\ pk[2] <= Len(t.childItems[pk[1]])
                      /\ t.childItems[pk[1]][pk[2]] = o})

\* createTreeData has returned for an argument whose ids are unique
ReturnedUnique ==
    /\ treeData.returned
    /\ \A i, j \in Records : flatItems[i].id = flatItems[j].id => i = j

\* C14: for records with unique ids, every record's object occurs exactly once in
\* the forest createTreeData returns.
C14_Totality ==
    ReturnedUnique => \A r \in Records : Occurrences(treeData, r) = 1

\* C15: for records with unique ids none of which names itself or a later record
\* as parent: a record whose parentId is the id of an earlier record is in that
\* record's children, every other record is in the returned array, and both are
\* in the order of the input.
C15_Placement ==
    (/\ ReturnedUnique
     /\ \A r, q \in Records : flatItems[r].parentId = flatItems[q].id => q < r) =>
        /\ \A r, q \in Records :
              flatItems[r].parentId = flatItems[q].id
                  => Count(treeData.childItems[q], r) = 1
        /\ \A r \in Records :
              (\A q \in Records : flatItems[r].parentId # flatItems[q].id)
                  => Count(treeData.rootItems, r) = 1
        /\ \A q \in Records : \A k \in 1..(Len(treeData.childItems[q]) - 1) :
              treeData.childItems[q][k] < treeData.childItems[q][k + 1]
        /\ \A k \in 1..(Len(treeData.rootItems) - 1) :
              treeData.rootItems[k] < treeData.rootItems[k + 1]

\* C16 as claimed, for a parent that can take children: a record listed before
\* the folder its parentId names is not in that folder's children and is in the
\* returned array.
C16_ForwardRefRooted ==
    ReturnedUnique =>
        \A r, q \in Records :
            (/\ r < q /\ flatItems[r].parentId = flatItems[q].id
             /\ flatItems[q].type = "folder") =>
                /\ Count(treeData.childItems[q], r) = 0
                /\ Count(treeData.rootItems, r) = 1

\* C16: a record listed before the record its parentId names is never in the
\* returned array; if the named record is a folder it is in that record's
\* children, once, as it would be had the folder been listed first.
C16_ForwardRefAttached ==
    ReturnedUnique =>
        \A r, q \in Records :
            (r < q /\ flatItems[r].parentId = flatItems[q].id) =>
                /\ Count(treeData.rootItems, r) = 0
                /\ flatItems[q].type = "folder" => Count(treeData.childItems[q], r) = 1

\* C16 witness: a file is listed before its parent, a folder without parentId;
\* the result is the folder with the file as its only child.
C16_Witness ==
    /\ ReturnedUnique
    /\ \E r, q \in Records :
          /\ r < q /\ flatItems[r].parentId = flatItems[q].id
          /\ flatItems[q].type = "folder" /\ flatItems[q].parentId = Undefined
          /\ treeData.rootItems = <<q>>
          /\ treeData.childItems[q] = <<r>>

\* C17: for records with unique ids, a record without parentId is in the returned
\* array whatever its type; a record of type folder has a children array, empty
\* if nothing was attached, and is rendered by TreeNode; a record of another or no
\* type has none and is rendered by TreeLeaf; and [{id: a, type: folder},
\* {id: b, parentId: a, type: file}] gives one root a whose children are [b], b
\* a leaf.
C17_BranchLeafTyping ==
    ReturnedUnique =>
        /\ \A r \in Records :
              /\ flatItems[r].parentId = Undefined => Count(treeData.rootItems, r) = 1
              /\ flatItems[r].type = "folder" <=> IsTreeNode(treeData, r)
              /\ ~IsTreeNode(treeData, r) => treeData.childItems[r] = <<>>
        /\ flatItems = <<[id |-> "a", parentId |-> Undefined, type |-> "folder"],
                         [id |-> "b", parentId |-> "a", type |-> "file"]>> =>
              /\ treeData.rootItems = <<1>>
              /\ treeData.childItems[1] = <<2>>
              /\ ~IsTreeNode(treeData, 2)

\* C17 witness: a folder without parentId that nothing is attached to and a file
\* without parentId are both returned, the folder as a branch with an empty
\* children array, the file as a leaf.
C17_Witness ==
    /\ ReturnedUnique
    /\ \E r, q \in Records :
          /\ flatItems[r].type = "folder" /\ flatItems[r].parentId = Undefined
          /\ flatItems[q].type = "file" /\ flatItems[q].parentId = Undefined
          /\ Count(treeData.rootItems, r) = 1 /\ Count(treeData.rootItems, q) = 1
          /\ IsTreeNode(treeData, r) /\ treeData.childItems[r] = <<>>
          /\ ~IsTreeNode(treeData, q)

\* C18: data a single node, ids unique, expandAll unset: for a target below the
\* root the expansion path is the ids from the root down to the target, the
\* root's id first, and the root and every other ancestor of the target are
\* initially open.
C18_SingleNodePath ==
    (mounted /\ ~data.isArray /\ UniqueIds(data) /\ ~expandAll) =>
        \A i \in Nodes(data) :
            (data.id[i] = initialSelectedItemId /\ Depth(data, i) >= 1) =>
                /\ expandedItemIds = PathTo(data, i)
                /\ expandedItemIds[1] = data.id[1]
                /\ Ancestors(data, i) \subseteq value

\* C19: with expandAll unset, if no initialSelectedItemId is supplied or no entry
\* has that id, the expansion path is empty and no branch is initially open.
C19_EmptyPathOnNoMatch ==
    (/\ mounted /\ ~expandAll
     /\ \A i \in Nodes(data) : data.id[i] # initialSelectedItemId) =>
        (expandedItemIds = <<>> /\ value = {})

\* C19 witness: the id searched for is supplied and absent from a tree with a
\* branch inside a branch and a later sibling, all of which the search visited.
C19_Witness ==
    /\ mounted /\ ~expandAll /\ initialSelectedItemId = AbsentId
    /\ \E i, j \in Nodes(data) :
          /\ Depth(data, i) = 2 /\ IsTreeNode(data, data.parent[i])
          /\ j > i /\ Depth(data, j) = 0
    /\ expandedItemIds = <<>> /\ value = {}

\* C20: a step that changes initialSelectedItemId after mount changes neither the
\* accordion value of any branch nor selectedItemId, and after mount these change
\* only in the step of a click.
C20_InitializedOnce ==
    [][mounted =>
          /\ initialSelectedItemId' # initialSelectedItemId
                 => (value' = value /\ selectedItemId' = selectedItemId)
          /\ (value' # value \/ selectedItemId' # selectedItemId)
                 => \E item \in Nodes(data) : Click(item)]_vars

\* C20 witness: the TreeView was mounted without an initial selection and then
\* rendered with initialSelectedItemId = b: the path to b is computed, yet nothing
\* is selected and b's parent is still closed.
C20_Witness ==
    /\ mounted /\ event.type = "none"
    /\ initialSelectedItemId = "b" /\ expandedItemIds = <<"a", "b">>
    /\ selectedItemId = Undefined
    /\ value = {}

\* the entries whose id is the target
Matches == {i \in Nodes(data) : data.id[i] = initialSelectedItemId}

\* the first of them in depth-first pre-order, the order the entries are numbered in
FirstMatch == CHOOSE i \in Matches : \A j \in Matches : i <= j

\* C21: data an array, expandAll unset, two entries with the target id: the
\* expansion path is the path from the top level to the first of them in
\* depth-first pre-order, and nothing else.
C21_FirstMatchWins ==
    (mounted /\ data.isArray /\ ~expandAll /\ Cardinality(Matches) >= 2) =>
        expandedItemIds = PathTo(data, FirstMatch)

\* C21 witness: the first of two entries with the target id lies inside a branch
\* that follows another entry, the second lies outside that branch; the path is
\* the two ids leading to the first.
C21_Witness ==
    /\ mounted /\ data.isArray /\ ~expandAll /\ Cardinality(Matches) = 2
    /\ Depth(data, FirstMatch) = 1
    /\ \E j \in Nodes(data) : j < FirstMatch /\ j \notin Ancestors(data, FirstMatch)
    /\ \E j \in Matches : j # FirstMatch /\ data.parent[j] # data.parent[FirstMatch]
    /\ Len(expandedItemIds) = 2
    /\ expandedItemIds = PathTo(data, FirstMatch)

\* the event types of drag and drop
DragEvents == {"dragstart", "dragover", "dragleave", "drop"}

\* C22: a dragleave on an entry clears that entry's drag-over flag and nothing
\* else: the dragged entry, the selection, the flags of the other entries and the
\* open branches stay as they are, and no callback is called.
C22_DragLeaveFrame ==
    [][\A item \in Nodes(data) :
          DragLeave(item) =>
              /\ isDragOver' = isDragOver \ {item}
              /\ draggedItem' = draggedItem
              /\ selectedItemId' = selectedItemId
              /\ value' = value
              /\ calls' = <<>>]_vars

\* C22 witness: during a drag, after a dragleave on a leaf, that leaf's flag is
\* clear, the flag of another entry is still set and the dragged entry is still
\* recorded.
C22_Witness ==
    /\ event.type = "dragleave" /\ ~IsTreeNode(data, event.target)
    /\ event.target \notin isDragOver /\ isDragOver # {}
    /\ draggedItem # NoItem /\ draggedItem = event.draggedItem
    /\ calls = <<>>

\* C23: a step of a dragstart, dragover, dragleave or drop, on an entry or on the
\* root drop zone, leaves selectedItemId as it is and calls no onSelectChange;
\* after mount selectedItemId changes in click steps only.
C23_SelectionOnlyByClick ==
    [][/\ event'.type \in DragEvents =>
              /\ selectedItemId' = selectedItemId
              /\ \A k \in 1..Len(calls') : calls'[k].fn # "onSelectChange"
       /\ (mounted /\ selectedItemId' # selectedItemId) =>
              /\ event'.type = "click"
              /\ \E item \in Nodes(data) : Click(item)]_vars

\* C23 witness: c, which is never the initial selection, was selected by a click
\* and is still selected after a drag that ended in a drop reported to the drop
\* callback.
C23_Witness ==
    /\ event.type = "drop" /\ DropCalls # {}
    /\ selectedItemId = "c"
    /\ event.target # 3 /\ event.draggedItem # 3

\* C25: after mount a selection, once there is one, never becomes none again, and
\* the onSelectChange listener is never called without an entry.
C25_NoDeselection ==
    [][/\ (mounted /\ selectedItemId # Undefined) => selectedItemId' # Undefined
       /\ \A k \in 1..Len(calls') :
             calls'[k].fn = "onSelectChange" => calls'[k].item \in Nodes(data)]_vars

\* C25 witness: c, which only a click can select, is still selected after a drag
\* of c itself that was started later and has ended without a drop.
C25_Witness ==
    /\ event.type = "dragend" /\ event.draggedItem = 3
    /\ selectedItemId = "c"

\* C28: the callbacks of a click are called in this order: onSelectChange, after
\* the selection was replaced, then the clicked entry's onClick; for branches and
\* leaves.
C28_ClickOrder ==
    event.type = "click" =>
        /\ \A k, l \in 1..Len(calls) :
              (calls[k].fn = "onSelectChange" /\ calls[l].fn = "onClick") => k < l
        /\ calls # <<>> => selectedItemId = data.id[event.target]

\* C28 witness: a click on a leaf with an onClick and a listener registered called
\* the listener first and the onClick second.
C28_Witness ==
    /\ event.type = "click" /\ ~IsTreeNode(data, event.target)
    /\ calls = <<Call("onSelectChange", event.target, NoItem),
                 Call("onClick", event.target, NoItem)>>

\* a step of a drop, on an entry or on the root drop zone
DropStep == (\E item \in Nodes(data) : Drop(item)) \/ DropOnRoot

\* C26: the drop callback is called in drop steps only, at most once in a step,
\* and only while an entry is recorded as dragged, which the same step forgets;
\* a dragged entry is recorded only by a dragstart that is not cancelled.  So
\* between two calls of the drop callback there is an accepted dragstart, and a
\* drop in the idle drag state calls nothing.
C26_OneCallbackPerDrag ==
    [][/\ (calls' # calls /\ DropCalls' # {}) => DropStep
       /\ (DropStep /\ DropCalls' # {}) =>
              /\ Cardinality(DropCalls') = 1
              /\ draggedItem # NoItem /\ draggedItem' = NoItem
       /\ (DropStep /\ draggedItem = NoItem) => calls' = <<>>
       /\ (mounted /\ draggedItem' # NoItem /\ draggedItem' # draggedItem) =>
              /\ \E item \in Nodes(data) : DragStart(item)
              /\ ~event'.defaultPrevented]_vars

\* C26 witness: with a drop callback supplied, a drop on an enabled entry was
\* handled in the idle drag state, during a drag that did not start in the tree,
\* and called nothing.
C26_Witness ==
    /\ onDocumentDrag
    /\ event.type = "drop" /\ event.target \in Nodes(data)
    /\ event.target \notin data.disabled
    /\ event.draggedItem = NoItem
    /\ calls = <<>> /\ draggedItem = NoItem

\* C29: in a tree with unique ids, whether the target lies inside the dragged
\* entry or not makes no difference: a dragover on an entry that is not
\* disabled, whose droppable is not false and whose id is not the dragged
\* entry's is accepted, and a drop on it calls a supplied drop callback with the
\* dragged entry and the target.
C29_NoAncestryCheck ==
    (/\ UniqueIds(data)
     /\ event.target \in Nodes(data) /\ event.draggedItem \in Nodes(data)
     /\ event.target # event.draggedItem
     /\ event.target \notin data.disabled /\ event.target \notin data.notDroppable) =>
        /\ event.type = "dragover" =>
              (event.defaultPrevented /\ event.target \in isDragOver)
        /\ (event.type = "drop" /\ onDocumentDrag) =>
              calls = <<Call("onDocumentDrag", event.draggedItem, event.target)>>

\* C29 witness: the branch a was dragged over its own child b, which accepted the
\* dragover.
C29_Witness ==
    /\ event.type = "dragover"
    /\ event.draggedItem = 1 /\ event.target = 2
    /\ event.draggedItem \in Ancestors(data, event.target)
    /\ event.defaultPrevented /\ 2 \in isDragOver

\* the disabled entries rendered by TreeLeaf
DisabledLeaves == {i \in data.disabled : ~IsTreeNode(data, i)}

\* C30: a disabled leaf is never the dragged entry, never has its drag-over flag
\* set and is never an argument of a call of the drop callback.
C30_DisabledLeafOutOfDnD ==
    \A i \in DisabledLeaves :
        /\ draggedItem # i
        /\ i \notin isDragOver
        /\ \A k \in DropCalls : calls[k].item # i /\ calls[k].target # i

\* C30 witness: a dragged entry was dropped on a disabled leaf, with a drop
\* callback supplied, and nothing was called.
C30_Witness ==
    /\ onDocumentDrag
    /\ event.type = "drop" /\ event.target \in DisabledLeaves
    /\ event.draggedItem \in Nodes(data)
    /\ calls = <<>> /\ event.target \notin isDragOver

ParentRecord(r) ==
    LET S == {q \in Records : flatItems[q].id = flatItems[r].parentId}
    IN IF S = {} THEN NoItem ELSE CHOOSE q \in S : TRUE

\* the record k parentId steps above record r, NoItem if the steps end before
RECURSIVE ParentChain(_, _)
ParentChain(r, k) ==
    IF k = 0 \/ r = NoItem THEN r ELSE ParentChain(ParentRecord(r), k - 1)

\* record r lies on a cycle of parentIds or below one: its parentId steps never end
OnOrBelowParentCycle(r) == ParentChain(r, Len(flatItems)) # NoItem

\* C27: for records with unique ids, every object of the returned forest occurs
\* in it once and is not its own descendant, and a record on a cycle of
\* parentIds (a record naming itself included) or below one is not in the
\* returned forest.
C27_StrictHierarchy ==
    ReturnedUnique =>
        /\ \A o \in Reachable(treeData) :
              /\ Occurrences(treeData, o) = 1
              /\ o \notin ReachFrom(treeData,
                                    {c \in Records : Count(treeData.childItems[o], c) > 0})
        /\ \A r \in Records : OnOrBelowParentCycle(r) => r \notin Reachable(treeData)

\* C27 witness: two folders name each other as parent and a third record is a
\* root: the two are each other's only child and neither is in the returned forest.
C27_Witness ==
    /\ ReturnedUnique
    /\ \E r, q \in Records :
          /\ r # q /\ ParentRecord(r) = q /\ ParentRecord(q) = r
          /\ treeData.childItems[r] = <<q>> /\ treeData.childItems[q] = <<r>>
          /\ r \notin Reachable(treeData) /\ q \notin Reachable(treeData)
    /\ Len(treeData.rootItems) = 1

====
